---- MODULE Spec2Model ----
(***************************************************************************)
(* Stepper-motor driver layer (avr_controller/src/motors.c): two timer     *)
(* driven pulse channels (Timer4 -> LEFT, Timer1 -> RIGHT), their compare  *)
(* match interrupt handlers that count output edges, and the main-context  *)
(* API that programs the timers and reads / resets the counters inside     *)
(* SREG-save / cli / SREG-restore critical sections.                       *)
(*                                                                         *)
(* Execution model.  The main context runs one API call at a time.  Calls  *)
(* that never touch data shared with the handlers are single actions.      *)
(* Calls that touch the 32-bit counters are split into the byte accesses   *)
(* an 8-bit AVR performs, so that a handler can run between any two of     *)
(* them whenever the global interrupt flag allows it.  A handler runs to   *)
(* completion (the hardware clears I on entry and RETI sets it again), and *)
(* a pending enabled interrupt is served before the main context executes  *)
(* its next step.                                                          *)
(***************************************************************************)
EXTENDS Integers, FiniteSets, Sequences, TLC

(* ------------------------------------------------------------------ *)
(* Bounds of the model                                                *)
(* ------------------------------------------------------------------ *)

\* Compare matches a channel's timer may produce since its counter was
\* last zeroed (or since power-up).
MaxToggles == 2

\* Largest step count of a software burst that is followed to its end; a
\* burst with more steps is followed for this many cycles.
MaxSteps == 2

(* ------------------------------------------------------------------ *)
(* Configuration (config.h) and fixed widths                          *)
(* ------------------------------------------------------------------ *)

F_CPU == 16000000

STEPS_PER_REV == 200

\* 2^16, 2^8: uint16_t and uint8_t hold values below these.  A 32-bit
\* value is kept as its four bytes, least significant first (a counter),
\* or as its two 16-bit halves (an intermediate product).
TwoTo16 == 65536

TwoTo8 == 256

\* The extremes of int32_t (the steps argument of motors_move_*).
INT32_MAX == 2147483647

INT32_MIN == -INT32_MAX - 1

\* The rpm threshold of the 8-bit channel (motors_set_speed_left).
RPM_THRESHOLD == 500

\* Clock divisors Timer4 of the ATmega32U4 offers (CS43:40 = 1..15).
Timer4Divisors == {1, 2, 4, 8, 16, 32, 64, 128, 256, 512, 1024, 2048, 4096, 8192, 16384}

\* Clock divisors Timer1 offers (CS12:10 = 1..5).
Timer1Divisors == {1, 8, 64, 256, 1024}

\* The CS43:40 code that selects Timer4 divisor d (d = 2^(code-1)).
RECURSIVE Timer4Code(_)
Timer4Code(d) == IF d = 1 THEN 1 ELSE 1 + Timer4Code(d \div 2)

\* The CS12:10 code that selects Timer1 divisor d.
Timer1Code(d) ==
    CASE d = 1 -> 1 [] d = 8 -> 2 [] d = 64 -> 3 [] d = 256 -> 4 [] OTHER -> 5

\* Every configuration config.h can hold: the high-speed divisor of the
\* left channel is the smaller one.
AllConfigs ==
    {cfg \in [hi : Timer4Divisors, lo : Timer4Divisors, t1 : Timer1Divisors] :
        cfg.hi < cfg.lo}

\* The configuration the interleaving specification runs with.
RunConfigs == {[hi |-> 64, lo |-> 1024, t1 |-> 1024]}

\* Speeds the main context asks for.
RunRpms == {600}

SpeedRpms == {0, 1, 500, 501, 600, 39322, 65535}

\* Values the counters may hold when the observed run starts: fresh, just
\* below a byte carry, and just below the 32-bit wrap.
StartCounts == {<<0, 0, 0, 0>>, <<255, 0, 0, 0>>, <<255, 255, 255, 255>>}

\* Speeds asked for repeatedly, one on each side of the threshold; what
\* each of them programmed the first time is remembered.
RestartRpms == {300, 700}

TrackedRpms == RestartRpms

\* Speeds asked for between software bursts: the threshold and the first
\* speed above it.
MoveRpms == {RPM_THRESHOLD, RPM_THRESHOLD + 1}

\* Step counts asked of motors_move_*: none, a few of either sign, and the
\* two extremes.
MoveSteps == {-MaxSteps, 0, MaxSteps, INT32_MIN, INT32_MAX}

(* ------------------------------------------------------------------ *)
(* State                                                              *)
(* ------------------------------------------------------------------ *)

VARIABLES
    \* config.h
    CLOCK_DIVISOR_TIMER4_HIGH, CLOCK_DIVISOR_TIMER4_LOW, CLOCK_DIVISOR,
    \* private state of motors.c
    left_top, right_top, left_edge_cnt, right_edge_cnt,
    \* timer registers: clock-select fields and compare registers
    TCCR4B_CS, TCCR1B_CS, OCR4C, OCR4D, OCR1A,
    \* compare-match interrupt enables and flags
    OCIE4D, OCIE1A, OCF4D, OCF1A,
    \* global interrupt enable (SREG bit I)
    SREG_I,
    \* port bits
    LEFT_ENA, RIGHT_ENA, LEFT_DIR, RIGHT_DIR, LEFT_PUL, RIGHT_PUL,
    \* main context: position, running call, its locals and its result
    pc, byte, op, oldSREG, c, ret, result,
    \* history: arguments of the last set_speed per channel, and the top and
    \* clock selection each tracked speed programmed the first time
    cfg_l, rpm_l, cfg_r, rpm_r, first_l, first_r,
    \* motors_move_*: the locals steps and i, and as history the argument of
    \* the call and the high-then-low cycles it has completed
    steps, i, arg, cycles,
    \* history: I on entry of the running call, the values the counter
    \* being read has held since that entry, whether the call directly
    \* follows a completed reset
    entryI, held, after_reset,
    \* history: the driver-enable outputs on entry of the last motors_stop_all
    ena_at_stop,
    \* history per channel since the counter was last zeroed: handler runs,
    \* compare matches merged into an already set flag, the counter's
    \* value at that moment
    handled_l, handled_r, lost_l, lost_r, base_l, base_r

config == <<CLOCK_DIVISOR_TIMER4_HIGH, CLOCK_DIVISOR_TIMER4_LOW, CLOCK_DIVISOR>>

leftTimer == <<left_top, TCCR4B_CS, OCR4C, OCR4D>>

rightTimer == <<right_top, TCCR1B_CS, OCR1A>>

speedHist == <<cfg_l, rpm_l, cfg_r, rpm_r, first_l, first_r, result>>

burst == <<steps, i, arg, cycles>>

counters == <<left_edge_cnt, right_edge_cnt>>

irq == <<OCIE4D, OCIE1A, OCF4D, OCF1A>>

ports == <<LEFT_ENA, RIGHT_ENA, LEFT_DIR, RIGHT_DIR, LEFT_PUL, RIGHT_PUL>>

locals == <<oldSREG, c, ret>>

callHist == <<entryI, held, ena_at_stop>>

edgeHist == <<handled_l, handled_r, lost_l, lost_r, base_l, base_r>>

vars == <<config, burst, leftTimer, rightTimer, speedHist, counters, irq, SREG_I, ports,
          pc, byte, op, after_reset, locals, callHist, edgeHist>>

(* ------------------------------------------------------------------ *)
(* Arithmetic helpers                                                 *)
(* ------------------------------------------------------------------ *)

\* The uint32_t 0.
Zero32 == <<0, 0, 0, 0>>

\* Byte i (0 = least significant) of a uint32_t.
ByteOf(v, k) == v[k + 1]

\* v with byte i replaced by b.
WithByte(v, k, b) == [v EXCEPT ![k + 1] = b]

\* v + k for a small k, modulo 2^32: the carry ripples through the bytes.
RECURSIVE AddFrom(_, _, _)
AddFrom(v, k, carry) ==
    IF k > 3 \/ carry = 0 THEN v
    ELSE AddFrom(WithByte(v, k, (ByteOf(v, k) + carry) % TwoTo8), k + 1,
                 (ByteOf(v, k) + carry) \div TwoTo8)

\* v >> 1 on a uint32_t.
ShiftRight1(v) ==
    [k \in 1..4 |-> (v[k] \div 2) + (IF k < 4 THEN (v[k + 1] % 2) * (TwoTo8 \div 2) ELSE 0)]

\* The uint32_t that holds n (0 <= n < 2^31).
ToU32(n) ==
    <<n % TwoTo8, (n \div TwoTo8) % TwoTo8, (n \div TwoTo16) % TwoTo8,
      (n \div (TwoTo16 * TwoTo8)) % TwoTo8>>

\* a * d modulo 2^32 as <<high half, low half>> (a < 2^32, d <= 2^14).
MulU32(a, d) ==
    LET lowProduct == (a % TwoTo16) * d
    IN  <<((a \div TwoTo16) * d + lowProduct \div TwoTo16) % TwoTo16,
          lowProduct % TwoTo16>>

Min(a, b) == IF a <= b THEN a ELSE b

(* ------------------------------------------------------------------ *)
(* Initial state: static initialisers, then motors_init()             *)
(* ------------------------------------------------------------------ *)

InitWith(cfgs, starts) ==
    /\ \E cfg \in cfgs :
          /\ CLOCK_DIVISOR_TIMER4_HIGH = cfg.hi
          /\ CLOCK_DIVISOR_TIMER4_LOW = cfg.lo
          /\ CLOCK_DIVISOR = cfg.t1
    /\ \E s \in starts :
          /\ left_edge_cnt = s /\ right_edge_cnt = s
          /\ base_l = s /\ base_r = s
    /\ left_top = 0 /\ right_top = 0
    /\ TCCR4B_CS = 0 /\ TCCR1B_CS = 0
    /\ OCR4C = 0 /\ OCR4D = 0 /\ OCR1A = 0
    /\ OCIE4D = TRUE /\ OCIE1A = TRUE
    /\ OCF4D = FALSE /\ OCF1A = FALSE
    /\ SREG_I = FALSE
    /\ LEFT_ENA = FALSE /\ RIGHT_ENA = FALSE
    /\ LEFT_DIR = TRUE /\ RIGHT_DIR = TRUE
    /\ LEFT_PUL = TRUE /\ RIGHT_PUL = TRUE
    /\ pc = "idle" /\ byte = 0 /\ op = "none"
    /\ oldSREG = FALSE /\ c = Zero32 /\ ret = Zero32 /\ result = "ok"
    /\ cfg_l = FALSE /\ rpm_l = 0 /\ cfg_r = FALSE /\ rpm_r = 0
    /\ first_l = [r \in TrackedRpms |-> <<>>] /\ first_r = [r \in TrackedRpms |-> <<>>]
    /\ steps = 0 /\ i = 0 /\ arg = 0 /\ cycles = 0
    /\ entryI = FALSE /\ held = {} /\ after_reset = FALSE
    /\ ena_at_stop = <<FALSE, FALSE>>
    /\ handled_l = 0 /\ handled_r = 0 /\ lost_l = 0 /\ lost_r = 0

Init == InitWith(RunConfigs, StartCounts)

(* ------------------------------------------------------------------ *)
(* Hardware: compare matches and interrupt dispatch                   *)
(* ------------------------------------------------------------------ *)

\* An enabled interrupt is pending and the global flag lets it in.
IrqReady == SREG_I /\ ((OCIE4D /\ OCF4D) \/ (OCIE1A /\ OCF1A))

\* The main context may execute its next step.
MainRuns == ~IrqReady

LeftReads == {"get_edge_count_left", "get_step_count_left"}

RightReads == {"get_edge_count_right", "get_step_count_right"}

EdgeReads == {"get_edge_count_left", "get_edge_count_right"}

StepReads == {"get_step_count_left", "get_step_count_right"}

ReadOps == LeftReads \cup RightReads

\* Compare matches (output toggles) of a channel since its counter was zeroed.
TogglesLeft == handled_l + lost_l + (IF OCF4D THEN 1 ELSE 0)

TogglesRight == handled_r + lost_r + (IF OCF1A THEN 1 ELSE 0)

\* Timer4 reaches OCR4D: OC4D toggles and the compare flag is set.  A match
\* that finds the flag still set merges with the event already pending.
CompareMatchLeft ==
    /\ TCCR4B_CS # 0
    /\ TogglesLeft < MaxToggles
    /\ OCF4D' = TRUE
    /\ lost_l' = IF OCF4D THEN lost_l + 1 ELSE lost_l
    /\ UNCHANGED <<config, burst, leftTimer, rightTimer, speedHist, counters, OCIE4D, OCIE1A,
                   OCF1A, SREG_I, ports, pc, byte, op, after_reset, locals, callHist,
                   handled_l, handled_r, lost_r, base_l, base_r>>

\* Timer1 reaches OCR1A.
CompareMatchRight ==
    /\ TCCR1B_CS # 0
    /\ TogglesRight < MaxToggles
    /\ OCF1A' = TRUE
    /\ lost_r' = IF OCF1A THEN lost_r + 1 ELSE lost_r
    /\ UNCHANGED <<config, burst, leftTimer, rightTimer, speedHist, counters, OCIE4D, OCIE1A,
                   OCF4D, SREG_I, ports, pc, byte, op, after_reset, locals, callHist,
                   handled_l, handled_r, lost_l, base_l, base_r>>

\* cnt++ on a uint32_t.
Incr32_by2(v) == AddFrom(v, 0, 2)

Incr32(v) == AddFrom(v, 0, 1)

\* ISR(TIMER4_COMPD_vect): left_edge_cnt++.
ISR_TIMER4_COMPD_vect ==
    /\ SREG_I /\ OCIE4D /\ OCF4D
    /\ OCF4D' = FALSE
    /\ left_edge_cnt' = Incr32(left_edge_cnt)
    /\ handled_l' = handled_l + 1
    /\ held' = IF pc # "idle" /\ op \in LeftReads
               THEN held \cup {left_edge_cnt'} ELSE held
    /\ UNCHANGED <<config, burst, leftTimer, rightTimer, speedHist, right_edge_cnt, OCIE4D,
                   OCIE1A, OCF1A, SREG_I, ports, pc, byte, op, after_reset, locals,
                   entryI, ena_at_stop, handled_r, lost_l, lost_r, base_l, base_r>>

\* ISR(TIMER1_COMPA_vect): right_edge_cnt++.
ISR_TIMER1_COMPA_vect ==
    /\ SREG_I /\ OCIE1A /\ OCF1A
    /\ OCF1A' = FALSE
    /\ right_edge_cnt' = Incr32(right_edge_cnt)
    /\ handled_r' = handled_r + 1
    /\ held' = IF pc # "idle" /\ op \in RightReads
               THEN held \cup {right_edge_cnt'} ELSE held
    /\ UNCHANGED <<config, burst, leftTimer, rightTimer, speedHist, left_edge_cnt, OCIE4D,
                   OCIE1A, OCF4D, SREG_I, ports, pc, byte, op, after_reset, locals,
                   entryI, ena_at_stop, handled_l, lost_l, lost_r, base_l, base_r>>

\* The code that runs with interrupts enabled around the driver's calls
\* may itself execute cli() or sei() between two calls.
CallerSetsInterrupts(on) ==
    /\ pc = "idle" /\ MainRuns
    /\ SREG_I # on
    /\ SREG_I' = on
    /\ op' = "other" /\ after_reset' = FALSE
    /\ ret' = Zero32 /\ entryI' = FALSE /\ held' = {} /\ ena_at_stop' = <<FALSE, FALSE>>
    /\ arg' = 0 /\ cycles' = 0
    /\ UNCHANGED <<config, steps, i, leftTimer, rightTimer, speedHist, counters, irq, ports,
                   pc, byte, oldSREG, c, edgeHist>>

(* ------------------------------------------------------------------ *)
(* Critical sections: counter reads and reset                         *)
(* ------------------------------------------------------------------ *)

\* The counter a read call snapshots.
CounterOf(name) == IF name \in LeftReads THEN left_edge_cnt ELSE right_edge_cnt

\* uint8_t oldSREG = SREG;  (entry of a read; name is the API function)
CallRead(name) ==
    /\ pc = "idle" /\ MainRuns
    /\ pc' = "cli" /\ byte' = 0 /\ op' = name
    /\ oldSREG' = SREG_I /\ c' = Zero32
    /\ entryI' = SREG_I
    /\ held' = {CounterOf(name)}
    /\ after_reset' = (op = "reset_edge_counts")
    /\ ret' = Zero32 /\ ena_at_stop' = <<FALSE, FALSE>>
    /\ UNCHANGED <<config, burst, leftTimer, rightTimer, speedHist, counters, irq, SREG_I,
                   ports, edgeHist>>

motors_get_edge_count_left == CallRead("get_edge_count_left")

motors_get_edge_count_right == CallRead("get_edge_count_right")

motors_get_step_count_left == CallRead("get_step_count_left")

motors_get_step_count_right == CallRead("get_step_count_right")

\* uint8_t oldSREG = SREG;  (entry of motors_reset_edge_counts)
motors_reset_edge_counts ==
    /\ pc = "idle" /\ MainRuns
    /\ pc' = "cli" /\ byte' = 0 /\ op' = "reset_edge_counts"
    /\ oldSREG' = SREG_I
    /\ entryI' = SREG_I
    /\ after_reset' = FALSE
    /\ ret' = Zero32 /\ held' = {} /\ ena_at_stop' = <<FALSE, FALSE>>
    /\ UNCHANGED <<config, burst, leftTimer, rightTimer, speedHist, counters, irq, SREG_I,
                   ports, c, edgeHist>>

\* The I flag after cli().
CliValue_omitted == SREG_I

CliValue_sei == TRUE

CliValue == FALSE

\* cli();
Cli ==
    /\ pc = "cli" /\ MainRuns
    /\ SREG_I' = CliValue
    /\ pc' = IF op = "reset_edge_counts" THEN "zero_right" ELSE "read"
    /\ byte' = 0
    /\ UNCHANGED <<config, burst, leftTimer, rightTimer, speedHist, counters, irq, ports,
                   op, after_reset, locals, callHist, edgeHist>>

\* c = left_edge_cnt;  /  c = right_edge_cnt;  one byte load per step.
ReadByte ==
    /\ pc = "read" /\ MainRuns
    /\ c' = WithByte(c, byte, ByteOf(CounterOf(op), byte))
    /\ IF byte = 3 THEN pc' = "restore" /\ byte' = 0
                   ELSE pc' = "read" /\ byte' = byte + 1
    /\ UNCHANGED <<config, burst, leftTimer, rightTimer, speedHist, counters, irq, SREG_I,
                   ports, op, after_reset, oldSREG, ret, callHist, edgeHist>>

\* ... = right_edge_cnt = 0;  one byte store per step (the right operand of
\* the chained assignment is stored first).
ZeroRightByte ==
    /\ pc = "zero_right" /\ MainRuns
    /\ right_edge_cnt' = WithByte(right_edge_cnt, byte, 0)
    /\ IF byte = 3
       THEN /\ pc' = "zero_left" /\ byte' = 0
            /\ handled_r' = 0 /\ lost_r' = 0 /\ base_r' = right_edge_cnt'
       ELSE /\ pc' = "zero_right" /\ byte' = byte + 1
            /\ UNCHANGED <<handled_r, lost_r, base_r>>
    /\ UNCHANGED <<config, burst, leftTimer, rightTimer, speedHist, left_edge_cnt, irq, SREG_I,
                   ports, op, after_reset, locals, callHist, handled_l, lost_l, base_l>>

\* The left counter's bytes are left as they are.
ZeroLeftByte_skipped ==
    /\ pc = "zero_left" /\ MainRuns
    /\ IF byte = 3
       THEN /\ pc' = "restore" /\ byte' = 0
            /\ handled_l' = 0 /\ lost_l' = 0 /\ base_l' = left_edge_cnt
       ELSE /\ pc' = "zero_left" /\ byte' = byte + 1
            /\ UNCHANGED <<handled_l, lost_l, base_l>>
    /\ UNCHANGED <<config, burst, leftTimer, rightTimer, speedHist, counters, irq, SREG_I,
                   ports, op, after_reset, locals, callHist, handled_r, lost_r, base_r>>

\* left_edge_cnt = ... 0;
ZeroLeftByte ==
    /\ pc = "zero_left" /\ MainRuns
    /\ left_edge_cnt' = WithByte(left_edge_cnt, byte, 0)
    /\ IF byte = 3
       THEN /\ pc' = "restore" /\ byte' = 0
            /\ handled_l' = 0 /\ lost_l' = 0 /\ base_l' = left_edge_cnt'
       ELSE /\ pc' = "zero_left" /\ byte' = byte + 1
            /\ UNCHANGED <<handled_l, lost_l, base_l>>
    /\ UNCHANGED <<config, burst, leftTimer, rightTimer, speedHist, right_edge_cnt, irq, SREG_I,
                   ports, op, after_reset, locals, callHist, handled_r, lost_r, base_r>>

\* The I flag after SREG = oldSREG.
RestoredI_sei(old) == TRUE

RestoredI(old) == old

\* motors_get_step_count_*: the snapshot shifted right by one.
StepOf_unshifted(v) == v

StepOf(v) == ShiftRight1(v)

\* SREG = oldSREG; return c;  (and the >> 1 of the step-count wrappers)
Restore ==
    /\ pc = "restore" /\ MainRuns
    /\ SREG_I' = RestoredI(oldSREG)
    /\ ret' = IF op \in StepReads THEN StepOf(c)
              ELSE IF op \in EdgeReads THEN c ELSE ret
    /\ pc' = "idle"
    /\ oldSREG' = FALSE /\ c' = Zero32
    /\ UNCHANGED <<config, burst, leftTimer, rightTimer, speedHist, counters, irq, ports,
                   byte, op, after_reset, callHist, edgeHist>>


(* ------------------------------------------------------------------ *)
(* Driver enable and direction outputs                                *)
(* ------------------------------------------------------------------ *)

\* A main-context call that is one action: what it leaves alone besides
\* the registers it names.  The previous call's result and history end.
AtomicCall(name) ==
    /\ pc = "idle" /\ MainRuns
    /\ op' = name /\ after_reset' = FALSE
    /\ ret' = Zero32 /\ entryI' = FALSE /\ held' = {}
    /\ arg' = 0 /\ cycles' = 0
    /\ UNCHANGED <<config, steps, i, counters, irq, SREG_I, pc, byte, oldSREG, c, edgeHist>>

\* motors_enable_left that drives both enable outputs.
motors_enable_left_both(en) ==
    /\ AtomicCall("enable_left")
    /\ LEFT_ENA' = en /\ RIGHT_ENA' = en
    /\ UNCHANGED <<leftTimer, rightTimer, speedHist, LEFT_DIR, RIGHT_DIR,
                   LEFT_PUL, RIGHT_PUL>>
    /\ ena_at_stop' = <<FALSE, FALSE>>

motors_enable_left(en) ==
    /\ AtomicCall("enable_left")
    /\ LEFT_ENA' = en
    /\ UNCHANGED <<leftTimer, rightTimer, speedHist, RIGHT_ENA, LEFT_DIR, RIGHT_DIR,
                   LEFT_PUL, RIGHT_PUL>>
    /\ ena_at_stop' = <<FALSE, FALSE>>

motors_enable_right(en) ==
    /\ AtomicCall("enable_right")
    /\ RIGHT_ENA' = en
    /\ UNCHANGED <<leftTimer, rightTimer, speedHist, LEFT_ENA, LEFT_DIR, RIGHT_DIR,
                   LEFT_PUL, RIGHT_PUL>>
    /\ ena_at_stop' = <<FALSE, FALSE>>

motors_enable_all(en) ==
    /\ AtomicCall("enable_all")
    /\ LEFT_ENA' = en /\ RIGHT_ENA' = en
    /\ UNCHANGED <<leftTimer, rightTimer, speedHist, LEFT_DIR, RIGHT_DIR,
                   LEFT_PUL, RIGHT_PUL>>
    /\ ena_at_stop' = <<FALSE, FALSE>>

\* motors_set_dir_left that also clears Timer4's clock selection.
motors_set_dir_left_stopsTimer(fwd) ==
    /\ AtomicCall("set_dir_left")
    /\ LEFT_DIR' = fwd
    /\ TCCR4B_CS' = 0
    /\ UNCHANGED <<left_top, OCR4C, OCR4D, rightTimer, speedHist, LEFT_ENA, RIGHT_ENA,
                   RIGHT_DIR, LEFT_PUL, RIGHT_PUL>>
    /\ ena_at_stop' = <<FALSE, FALSE>>

motors_set_dir_left(fwd) ==
    /\ AtomicCall("set_dir_left")
    /\ LEFT_DIR' = fwd
    /\ UNCHANGED <<leftTimer, rightTimer, speedHist, LEFT_ENA, RIGHT_ENA, RIGHT_DIR,
                   LEFT_PUL, RIGHT_PUL>>
    /\ ena_at_stop' = <<FALSE, FALSE>>

motors_set_dir_right(fwd) ==
    /\ AtomicCall("set_dir_right")
    /\ RIGHT_DIR' = fwd
    /\ UNCHANGED <<leftTimer, rightTimer, speedHist, LEFT_ENA, RIGHT_ENA, LEFT_DIR,
                   LEFT_PUL, RIGHT_PUL>>
    /\ ena_at_stop' = <<FALSE, FALSE>>

(* ------------------------------------------------------------------ *)
(* Speed to timer configuration                                       *)
(* ------------------------------------------------------------------ *)

\* a | b on a register field.
RECURSIVE OrBits(_, _)
OrBits(a, b) ==
    IF a = 0 THEN b
    ELSE IF b = 0 THEN a
    ELSE (IF a % 2 = 1 \/ b % 2 = 1 THEN 1 ELSE 0) + 2 * OrBits(a \div 2, b \div 2)

\* reg &= ~(all clock-select bits), seen on the clock-select field.
ClearCS_skipped(cs) == cs

ClearCS(cs) == cs - cs

\* ((uint32_t)rpm * STEPS_PER_REV) / 60U
rpm_to_freq(rpm) == (rpm * STEPS_PER_REV) \div 60

\* 2UL * freq * divisor, in unsigned long: <<high half, low half>>.
Denominator(freq, div) == MulU32(2 * freq, div)

IsZero(den) == den[1] = 0 /\ den[2] = 0

\* What an undefined division may leave behind, modulo 2^32: all-ones (-1,
\* the AVR library routine's answer), or another value the build produces.
DivByZeroOutcomes == {-1, 0, 1}

\* What F_CPU / den can evaluate to.  A denominator of 2^31 or more
\* exceeds F_CPU, so the quotient is 0.
Quotients(den) ==
    IF IsZero(den) THEN DivByZeroOutcomes
    ELSE IF den[1] >= TwoTo16 \div 2 THEN {0}
    ELSE {F_CPU \div (den[1] * TwoTo16 + den[2])}

\* "ok", or "undefined" when the call evaluated a division by zero.
Outcome(dens) == IF \E den \in dens : IsZero(den) THEN "undefined" ELSE "ok"

\* rpm > 500 selects the high-speed regime of the left channel.
UseHighSpeed_atThreshold(rpm) == rpm >= RPM_THRESHOLD

UseHighSpeed(rpm) == rpm > RPM_THRESHOLD

LeftDivisor(rpm) ==
    IF UseHighSpeed(rpm) THEN CLOCK_DIVISOR_TIMER4_HIGH ELSE CLOCK_DIVISOR_TIMER4_LOW

\* A prescaler macro without any clock-select bit.
LeftPrescale_none(rpm) == 0

\* PRE_SCALE_TIMER4_HIGH / PRE_SCALE_TIMER4_LOW
LeftPrescale(rpm) == Timer4Code(LeftDivisor(rpm))

\* left_top = (uint16_t)(q - 1UL): the cast keeps 16 bits, the uint8_t
\* variable keeps 8 of them.
StoreLeftTop(q) == ((q - 1) % TwoTo16) % TwoTo8

\* A clamp that never lets the top fall below the value programmed before.
ClampLeft_sticky(v) == IF left_top > v THEN left_top ELSE v

\* if (left_top > 255) left_top = 255;
ClampLeft(v) == IF v > TwoTo8 - 1 THEN TwoTo8 - 1 ELSE v

\* right_top = (uint16_t)top, top = q - 1UL.
StoreRightTop(q) == (q - 1) % TwoTo16

LeftDen(rpm) == Denominator(rpm_to_freq(rpm), LeftDivisor(rpm))

RightDen(rpm) == Denominator(rpm_to_freq(rpm), CLOCK_DIVISOR)

\* History: what a tracked speed programmed the first time it was asked
\* for, and whether it has been asked for again since.
Remember(first, rpm, programmed) ==
    IF rpm \notin DOMAIN first THEN first
    ELSE IF first[rpm] = <<>> THEN [first EXCEPT ![rpm] = programmed \o <<FALSE>>]
    ELSE [first EXCEPT ![rpm][3] = TRUE]

\* Body of motors_set_speed_left with F_CPU / den evaluated to q.
LeftSpeedEffect(rpm, q) ==
    /\ left_top' = ClampLeft(StoreLeftTop(q))
    /\ OCR4C' = left_top'
    /\ OCR4D' = left_top' \div 2
    /\ TCCR4B_CS' = OrBits(ClearCS(TCCR4B_CS), LeftPrescale(rpm))
    /\ cfg_l' = TRUE /\ rpm_l' = rpm
    /\ first_l' = Remember(first_l, rpm, <<left_top', TCCR4B_CS'>>)

\* Body of motors_set_speed_right with F_CPU / den evaluated to q.
RightSpeedEffect(rpm, q) ==
    /\ right_top' = StoreRightTop(q)
    /\ OCR1A' = right_top'
    /\ TCCR1B_CS' = OrBits(ClearCS(TCCR1B_CS), Timer1Code(CLOCK_DIVISOR))
    /\ cfg_r' = TRUE /\ rpm_r' = rpm
    /\ first_r' = Remember(first_r, rpm, <<right_top', TCCR1B_CS'>>)

motors_set_speed_left(rpm) ==
    /\ AtomicCall("set_speed_left")
    /\ \E q \in Quotients(LeftDen(rpm)) : LeftSpeedEffect(rpm, q)
    /\ result' = Outcome({LeftDen(rpm)})
    /\ ena_at_stop' = <<FALSE, FALSE>>
    /\ UNCHANGED <<rightTimer, cfg_r, rpm_r, first_r, ports>>

motors_set_speed_right(rpm) ==
    /\ AtomicCall("set_speed_right")
    /\ \E q \in Quotients(RightDen(rpm)) : RightSpeedEffect(rpm, q)
    /\ result' = Outcome({RightDen(rpm)})
    /\ ena_at_stop' = <<FALSE, FALSE>>
    /\ UNCHANGED <<leftTimer, cfg_l, rpm_l, first_l, ports>>

motors_set_speed_both(rpm_left, rpm_right) ==
    /\ AtomicCall("set_speed_both")
    /\ \E q \in Quotients(LeftDen(rpm_left)) : LeftSpeedEffect(rpm_left, q)
    /\ \E q \in Quotients(RightDen(rpm_right)) : RightSpeedEffect(rpm_right, q)
    /\ result' = Outcome({LeftDen(rpm_left), RightDen(rpm_right)})
    /\ ena_at_stop' = <<FALSE, FALSE>>
    /\ UNCHANGED <<ports>>

(* ------------------------------------------------------------------ *)
(* Software step burst                                                *)
(* ------------------------------------------------------------------ *)

MoveOps == {"move_left", "move_right"}

\* steps = -steps;  For steps = INT32_MIN the negation overflows
\* (undefined); in every build steps keeps the bit pattern 0x80000000,
\* which is INT32_MIN read as an int32_t and 2^31 read as a count.
Negate32(n) == IF n = INT32_MIN THEN INT32_MIN ELSE -n

\* The outcomes of the first loop test 0 < steps.  After the overflow a
\* build that compares signed (-O0, -fwrapv) finds the bound negative and
\* skips the loop; a build that relies on -steps > 0 (-O1 and above)
\* enters it.
EntersLoop(bound) == IF bound = INT32_MIN THEN BOOLEAN ELSE {0 < bound}

\* The level motors_set_dir_* is called with: a burst that always goes forward.
BurstForward_always(n) == TRUE

\* steps < 0 calls motors_set_dir_*(false), otherwise motors_set_dir_*(true).
BurstForward(n) == ~(n < 0)

\* The outcomes of the loop test i < steps after ++i.  With the overflowed
\* bound the loop is only running in a build that dropped the first test,
\* and its test on the back edge is one of two: the signed comparison,
\* false at index 1, so the burst returns after one cycle (-O2 -fno-ivopts),
\* or a count of i up to the bit pattern of steps, 2^31 iterations (-O2,
\* -Os).  A burst that passed the test at index 1 is of the second kind.
LoopContinues(index, bound) ==
    IF bound # INT32_MIN THEN {index < bound}
    ELSE IF index = 1 THEN {index < bound, index # bound}
    ELSE {index # bound}

\* Entry of motors_move_left / motors_move_right (name) up to the first
\* loop test: driver enabled, direction from the sign, steps made positive.
CallMove(name, n) ==
    /\ pc = "idle" /\ MainRuns
    /\ op' = name /\ arg' = n /\ cycles' = 0 /\ i' = 0
    /\ LET m == IF n < 0 THEN Negate32(n) ELSE n
       IN  \E enters \in EntersLoop(m) :
              IF enters
              THEN steps' = m /\ pc' = "pul_high"
              ELSE steps' = 0 /\ pc' = "idle"
    /\ after_reset' = FALSE
    /\ ret' = Zero32 /\ entryI' = FALSE /\ held' = {} /\ ena_at_stop' = <<FALSE, FALSE>>
    /\ UNCHANGED <<config, leftTimer, rightTimer, speedHist, counters, irq, SREG_I,
                   LEFT_PUL, RIGHT_PUL, byte, oldSREG, c, edgeHist>>

motors_move_left(n) ==
    /\ CallMove("move_left", n)
    /\ LEFT_ENA' = TRUE
    /\ LEFT_DIR' = BurstForward(n)
    /\ UNCHANGED <<RIGHT_ENA, RIGHT_DIR>>

motors_move_right(n) ==
    /\ CallMove("move_right", n)
    /\ RIGHT_ENA' = TRUE
    /\ RIGHT_DIR' = BurstForward(n)
    /\ UNCHANGED <<LEFT_ENA, LEFT_DIR>>

\* LEFT_PUL_PORT |= _BV(LEFT_PUL_BIT); _delay_us(5);  (or the right one)
PulseHigh ==
    /\ pc = "pul_high" /\ MainRuns
    /\ i < MaxSteps
    /\ IF op = "move_left"
       THEN LEFT_PUL' = TRUE /\ UNCHANGED RIGHT_PUL
       ELSE RIGHT_PUL' = TRUE /\ UNCHANGED LEFT_PUL
    /\ pc' = "pul_low"
    /\ UNCHANGED <<config, burst, leftTimer, rightTimer, speedHist, counters, irq, SREG_I,
                   LEFT_ENA, RIGHT_ENA, LEFT_DIR, RIGHT_DIR, byte, op, after_reset,
                   locals, callHist, edgeHist>>

\* LEFT_PUL_PORT &= ~_BV(LEFT_PUL_BIT); _delay_us(5); ++i; i < steps
PulseLow ==
    /\ pc = "pul_low" /\ MainRuns
    /\ IF op = "move_left"
       THEN LEFT_PUL' = FALSE /\ UNCHANGED RIGHT_PUL
       ELSE RIGHT_PUL' = FALSE /\ UNCHANGED LEFT_PUL
    /\ cycles' = cycles + 1
    /\ \E continues \in LoopContinues(i + 1, steps) :
          IF continues
          THEN i' = i + 1 /\ pc' = "pul_high" /\ UNCHANGED steps
          ELSE i' = 0 /\ pc' = "idle" /\ steps' = 0
    /\ UNCHANGED <<config, arg, leftTimer, rightTimer, speedHist, counters, irq, SREG_I,
                   LEFT_ENA, RIGHT_ENA, LEFT_DIR, RIGHT_DIR, byte, op, after_reset,
                   locals, callHist, edgeHist>>

(* ------------------------------------------------------------------ *)
(* Stop and (re)initialisation                                        *)
(* ------------------------------------------------------------------ *)

\* motors_stop_all without the motors_enable_all(false) call.
motors_stop_all_keepsDrivers ==
    /\ AtomicCall("stop_all")
    /\ ena_at_stop' = <<LEFT_ENA, RIGHT_ENA>>
    /\ TCCR1B_CS' = ClearCS(TCCR1B_CS)
    /\ TCCR4B_CS' = ClearCS(TCCR4B_CS)
    /\ UNCHANGED <<left_top, OCR4C, OCR4D, right_top, OCR1A, speedHist, ports>>

\* motors_stop_all that also clears both counters.
motors_stop_all_zeroesCounts ==
    /\ pc = "idle" /\ MainRuns
    /\ op' = "stop_all" /\ after_reset' = FALSE
    /\ ret' = Zero32 /\ entryI' = FALSE /\ held' = {}
    /\ ena_at_stop' = <<LEFT_ENA, RIGHT_ENA>>
    /\ LEFT_ENA' = FALSE /\ RIGHT_ENA' = FALSE
    /\ TCCR1B_CS' = ClearCS(TCCR1B_CS)
    /\ TCCR4B_CS' = ClearCS(TCCR4B_CS)
    /\ left_edge_cnt' = Zero32 /\ right_edge_cnt' = Zero32
    /\ arg' = 0 /\ cycles' = 0
    /\ UNCHANGED <<config, steps, i, irq, SREG_I, pc, byte, oldSREG, c, edgeHist,
                   left_top, OCR4C, OCR4D, right_top, OCR1A, speedHist,
                   LEFT_DIR, RIGHT_DIR, LEFT_PUL, RIGHT_PUL>>

motors_stop_all ==
    /\ AtomicCall("stop_all")
    /\ ena_at_stop' = <<LEFT_ENA, RIGHT_ENA>>
    /\ LEFT_ENA' = FALSE /\ RIGHT_ENA' = FALSE
    /\ TCCR1B_CS' = ClearCS(TCCR1B_CS)
    /\ TCCR4B_CS' = ClearCS(TCCR4B_CS)
    /\ UNCHANGED <<left_top, OCR4C, OCR4D, right_top, OCR1A, speedHist,
                   LEFT_DIR, RIGHT_DIR, LEFT_PUL, RIGHT_PUL>>

\* motors_init without TCCR4B = 0.
motors_init_keepsClock ==
    /\ pc = "idle" /\ MainRuns
    /\ op' = "init" /\ after_reset' = FALSE
    /\ ret' = Zero32 /\ entryI' = FALSE /\ held' = {} /\ ena_at_stop' = <<FALSE, FALSE>>
    /\ LEFT_PUL' = TRUE /\ LEFT_DIR' = TRUE /\ LEFT_ENA' = FALSE
    /\ RIGHT_PUL' = TRUE /\ RIGHT_DIR' = TRUE /\ RIGHT_ENA' = FALSE
    /\ TCCR1B_CS' = 0
    /\ OCIE4D' = TRUE /\ OCIE1A' = TRUE
    /\ arg' = 0 /\ cycles' = 0
    /\ UNCHANGED <<config, steps, i, left_top, TCCR4B_CS, OCR4C, OCR4D, right_top, OCR1A,
                   speedHist, counters, OCF4D, OCF1A, SREG_I, pc, byte, oldSREG, c,
                   edgeHist>>

\* motors_init called again: pins to their defaults, both timers without
\* a clock, both compare interrupts enabled.
motors_init ==
    /\ pc = "idle" /\ MainRuns
    /\ op' = "init" /\ after_reset' = FALSE
    /\ ret' = Zero32 /\ entryI' = FALSE /\ held' = {} /\ ena_at_stop' = <<FALSE, FALSE>>
    /\ LEFT_PUL' = TRUE /\ LEFT_DIR' = TRUE /\ LEFT_ENA' = FALSE
    /\ RIGHT_PUL' = TRUE /\ RIGHT_DIR' = TRUE /\ RIGHT_ENA' = FALSE
    /\ TCCR4B_CS' = 0 /\ TCCR1B_CS' = 0
    /\ OCIE4D' = TRUE /\ OCIE1A' = TRUE
    /\ arg' = 0 /\ cycles' = 0
    /\ UNCHANGED <<config, steps, i, left_top, OCR4C, OCR4D, right_top, OCR1A, speedHist,
                   counters, OCF4D, OCF1A, SREG_I, pc, byte, oldSREG, c, edgeHist>>

(* ------------------------------------------------------------------ *)
(* Specifications                                                     *)
(* ------------------------------------------------------------------ *)

Hardware ==
    \/ CompareMatchLeft
    \/ CompareMatchRight
    \/ ISR_TIMER4_COMPD_vect
    \/ ISR_TIMER1_COMPA_vect

CriticalSections ==
    \/ motors_get_edge_count_left
    \/ motors_get_edge_count_right
    \/ motors_get_step_count_left
    \/ motors_get_step_count_right
    \/ motors_reset_edge_counts
    \/ Cli
    \/ ReadByte
    \/ ZeroRightByte
    \/ ZeroLeftByte
    \/ Restore

Outputs ==
    \/ \E en \in BOOLEAN : motors_enable_left(en)
    \/ \E en \in BOOLEAN : motors_enable_right(en)
    \/ \E en \in BOOLEAN : motors_enable_all(en)
    \/ \E fwd \in BOOLEAN : motors_set_dir_left(fwd)
    \/ \E fwd \in BOOLEAN : motors_set_dir_right(fwd)

Next ==
    \/ Hardware
    \/ CriticalSections
    \/ Outputs
    \/ \E on \in BOOLEAN : CallerSetsInterrupts(on)
    \/ \E rpm \in RunRpms : motors_set_speed_left(rpm)
    \/ \E rpm \in RunRpms : motors_set_speed_right(rpm)
    \/ \E rpm \in RunRpms : motors_set_speed_both(rpm, rpm)
    \/ motors_stop_all
    \/ motors_init

Spec == Init /\ [][Next]_vars

\* The speed computation alone, over every configuration and with the
\* boundary speeds as inputs.
InitSpeed == InitWith(AllConfigs, {Zero32})

NextSpeed ==
    \/ \E rpm \in SpeedRpms : motors_set_speed_left(rpm)
    \/ \E rpm \in SpeedRpms : motors_set_speed_right(rpm)
    \/ \E rpm \in SpeedRpms : motors_set_speed_both(rpm, rpm)

SpecSpeed == InitSpeed /\ [][NextSpeed]_vars

\* Starting, stopping and restarting the timers at a speed on each side of
\* the threshold, with the outputs free to change and the left channel's
\* edge events free to occur in between; the counters are not read.
InitRestart == InitWith(RunConfigs, {Zero32})

NextRestart ==
    \/ CompareMatchLeft
    \/ ISR_TIMER4_COMPD_vect
    \/ \E en \in BOOLEAN : motors_enable_all(en)
    \/ \E fwd \in BOOLEAN : motors_set_dir_left(fwd)
    \/ \E on \in BOOLEAN : CallerSetsInterrupts(on)
    \/ \E rpm \in RestartRpms : motors_set_speed_left(rpm)
    \/ \E rpm \in RestartRpms : motors_set_speed_right(rpm)
    \/ \E rpm_left, rpm_right \in RestartRpms : motors_set_speed_both(rpm_left, rpm_right)
    \/ motors_stop_all
    \/ motors_init

SpecRestart == InitRestart /\ [][NextRestart]_vars

\* Software step bursts on either channel, preempted by the handlers of
\* running timers, between single-channel speed, enable and direction
\* calls.
InitMove == InitWith(RunConfigs, {Zero32})

NextMove ==
    \/ Hardware
    \/ \E n \in MoveSteps : motors_move_left(n)
    \/ \E n \in MoveSteps : motors_move_right(n)
    \/ PulseHigh
    \/ PulseLow
    \/ \E en \in BOOLEAN : motors_enable_left(en)
    \/ \E en \in BOOLEAN : motors_enable_right(en)
    \/ \E fwd \in BOOLEAN : motors_set_dir_left(fwd)
    \/ \E fwd \in BOOLEAN : motors_set_dir_right(fwd)
    \/ \E rpm \in MoveRpms : motors_set_speed_left(rpm)
    \/ \E rpm \in MoveRpms : motors_set_speed_right(rpm)
    \/ \E rpm_left, rpm_right \in MoveRpms : motors_set_speed_both(rpm_left, rpm_right)
    \/ CallerSetsInterrupts(TRUE)

SpecMove == InitMove /\ [][NextMove]_vars


(* ------------------------------------------------------------------ *)
(* Properties                                                         *)
(* ------------------------------------------------------------------ *)

\* A read or the reset has returned and nothing was called since.
Returned(ops) == pc = "idle" /\ op \in ops

CriticalOps == ReadOps \cup {"reset_edge_counts"}

\* C1: whatever handlers run during motors_get_edge_count_left/right, the
\* value returned is one the counter really held at some instant between
\* the call's entry and its return, never bytes of two different values.
C1_SnapshotIsAHeldValue == Returned(EdgeReads) => ret \in held

\* C1 witness: a left read that returned 256 although the counter still
\* held 255 when the call was entered (the handler ran during the call, and
\* the increment carried into the second byte).
C1_Witness ==
    /\ Returned({"get_edge_count_left"})
    /\ ret = <<0, 1, 0, 0>>
    /\ <<255, 0, 0, 0>> \in held

\* C2: every counter read and the reset leave the global interrupt enable
\* as it was on entry: disabled stays disabled, enabled is enabled again.
C2_InterruptStateRestored == Returned(CriticalOps) => SREG_I = entryI

\* C2 witness: the reset returned with interrupts still disabled, as on
\* entry, while a compare match is pending.
C2_Witness ==
    /\ Returned({"reset_edge_counts"})
    /\ ~entryI /\ ~SREG_I /\ OCF4D


\* floor(F_CPU / (2 * freq * div)) over unbounded integers, for freq >= 1
\* (the nested floor equals the floor of the whole quotient).
RefQuotient(rpm, div) == (F_CPU \div (2 * rpm_to_freq(rpm))) \div div

\* The divisor the rpm threshold assigns to a left-channel speed.
RefLeftDivisor(rpm) ==
    IF rpm > RPM_THRESHOLD THEN CLOCK_DIVISOR_TIMER4_HIGH ELSE CLOCK_DIVISOR_TIMER4_LOW

\* The formula's value floor(...) - 1, unclamped.
ComputedTop(rpm, div) == RefQuotient(rpm, div) - 1

\* min(max, floor(...) - 1) over the non-negative integers.
RefTop(max, rpm, div) ==
    Min(max, IF RefQuotient(rpm, div) = 0 THEN 0 ELSE RefQuotient(rpm, div) - 1)

\* C3: for every rpm >= 1 the programmed top is at most 255 (left) and at
\* most 65535 (right), and a computed value above the channel's maximum is
\* programmed as exactly that maximum: clamped, never wrapped.
C3_TopClampedNotWrapped ==
    /\ (cfg_l /\ rpm_l >= 1) =>
          /\ left_top <= TwoTo8 - 1
          /\ ComputedTop(rpm_l, RefLeftDivisor(rpm_l)) > TwoTo8 - 1 => left_top = TwoTo8 - 1
    /\ (cfg_r /\ rpm_r >= 1) =>
          /\ right_top <= TwoTo16 - 1
          /\ ComputedTop(rpm_r, CLOCK_DIVISOR) > TwoTo16 - 1 => right_top = TwoTo16 - 1

\* C4: a set_speed call with rpm = 0 evaluates no division by a zero
\* frequency and ends in the defined error result InvalidSpeed.
C4_ZeroRpmRejected ==
    /\ result # "undefined"
    /\ (Returned({"set_speed_left", "set_speed_both"}) /\ rpm_l = 0) => result = "InvalidSpeed"
    /\ (Returned({"set_speed_right", "set_speed_both"}) /\ rpm_r = 0) => result = "InvalidSpeed"

\* C8: motors_set_speed_left applies the high-speed prescaler and divisor
\* for every rpm above 500 and the low-speed ones for every rpm up to and
\* including 500, and the clock-select field then holds exactly that one
\* selection.
C8_PrescalerByThreshold ==
    Returned({"set_speed_left", "set_speed_both"}) =>
        /\ TCCR4B_CS = Timer4Code(RefLeftDivisor(rpm_l))
        /\ \E q \in Quotients(Denominator(rpm_to_freq(rpm_l), RefLeftDivisor(rpm_l))) :
              left_top = ((q - 1) % TwoTo16) % TwoTo8
        /\ OCR4C = left_top

\* C8 witness: rpm = 500 exactly was requested while the high-speed
\* selection was in force, and the low-speed selection alone is applied.
C8_Witness ==
    /\ Returned({"set_speed_left"})
    /\ rpm_l = RPM_THRESHOLD
    /\ TCCR4B_CS = Timer4Code(CLOCK_DIVISOR_TIMER4_LOW)
    /\ TCCR4B_CS # Timer4Code(CLOCK_DIVISOR_TIMER4_HIGH)
    /\ rpm_r > RPM_THRESHOLD

\* C9: whenever freq >= 1, the programmed top equals
\* min(channel_max, floor(F_CPU / (2 * freq * divisor)) - 1) computed over
\* unbounded non-negative integers, on both channels.
C9_TopMatchesReference ==
    /\ (cfg_l /\ rpm_to_freq(rpm_l) >= 1) =>
          left_top = RefTop(TwoTo8 - 1, rpm_l, RefLeftDivisor(rpm_l))
    /\ (cfg_r /\ rpm_to_freq(rpm_r) >= 1) =>
          right_top = RefTop(TwoTo16 - 1, rpm_r, CLOCK_DIVISOR)


\* What a read named name returns for the snapshot v.
ResultOf(name, v) == IF name \in StepReads THEN ShiftRight1(v) ELSE v

\* Handler runs of the channel a read looks at, since its counter was zeroed.
HandledOf(name) == IF name \in LeftReads THEN handled_l ELSE handled_r

\* C5 as stated: motors_reset_edge_counts followed immediately by any of
\* the four reads returns 0, in every reachable state.
C5_ReadAfterResetIsZero == (Returned(ReadOps) /\ after_reset) => ret = Zero32

\* C5 as amended: the read that directly follows the reset returns the
\* number of edge events the channel's handler has run since the zeroing
\* (halved for a step count); that is 0 whenever no handler ran in
\* between, in particular whenever interrupts were disabled on entry.
C5_ReadAfterResetCountsHandled ==
    /\ []((Returned(ReadOps) /\ after_reset /\ ~entryI) => ret = Zero32)
    /\ [][(pc = "restore" /\ pc' = "idle" /\ op \in ReadOps /\ after_reset) =>
              ret' = ResultOf(op, ToU32(HandledOf(op)))]_vars

\* C5 witness: with the left timer running and interrupts enabled, the
\* read that directly followed the reset returned 1.
C5_Witness ==
    /\ Returned({"get_edge_count_left"}) /\ after_reset
    /\ entryI /\ TCCR4B_CS # 0
    /\ ret = ToU32(1)


\* A step of the reset that stores into the left / right counter.
ResetStoresLeft == pc = "zero_left"

ResetStoresRight == pc = "zero_right"

\* A step in which the left / right handler runs: cnt + 1 modulo 2^32.
LeftHandlerStep ==
    /\ SREG_I /\ OCF4D /\ ~OCF4D'
    /\ left_edge_cnt' = AddFrom(left_edge_cnt, 0, 1)

RightHandlerStep ==
    /\ SREG_I /\ OCF1A /\ ~OCF1A'
    /\ right_edge_cnt' = AddFrom(right_edge_cnt, 0, 1)

AllOnes32 == <<TwoTo8 - 1, TwoTo8 - 1, TwoTo8 - 1, TwoTo8 - 1>>

\* C6 as stated: while a channel's clock source is not selected its
\* edge_count keeps its value (the reset apart), and the only operation
\* that brings it to 0 is motors_reset_edge_counts.
C6_CountMovesOnlyWhileRunning ==
    [][ /\ (TCCR4B_CS = 0 /\ left_edge_cnt' # left_edge_cnt) => ResetStoresLeft
        /\ (TCCR1B_CS = 0 /\ right_edge_cnt' # right_edge_cnt) => ResetStoresRight
        /\ (left_edge_cnt' = Zero32 /\ left_edge_cnt # Zero32) => ResetStoresLeft
        /\ (right_edge_cnt' = Zero32 /\ right_edge_cnt # Zero32) => ResetStoresRight
      ]_vars

\* C6 as amended: a channel's edge_count changes only by its handler adding
\* 1 modulo 2^32 for an edge event, or by the reset storing zeroes; edge
\* events are raised only while the channel's clock source is selected, so
\* once the timer is stopped and no event is pending the count keeps its
\* value until the next set_speed, the reset apart; motors_stop_all never
\* changes it; it becomes 0 only by the reset or by the increment that
\* wraps from 0xFFFFFFFF.
C6_CountMovesOnlyByHandlerOrReset ==
    [][ /\ left_edge_cnt' # left_edge_cnt => (LeftHandlerStep \/ ResetStoresLeft)
        /\ right_edge_cnt' # right_edge_cnt => (RightHandlerStep \/ ResetStoresRight)
        /\ (~OCF4D /\ OCF4D') => TCCR4B_CS # 0
        /\ (~OCF1A /\ OCF1A') => TCCR1B_CS # 0
        /\ (TCCR4B_CS = 0 /\ ~OCF4D /\ left_edge_cnt' # left_edge_cnt) => ResetStoresLeft
        /\ (TCCR1B_CS = 0 /\ ~OCF1A /\ right_edge_cnt' # right_edge_cnt) => ResetStoresRight
        /\ motors_stop_all => UNCHANGED counters
        /\ (left_edge_cnt' = Zero32 /\ left_edge_cnt # Zero32) =>
              (ResetStoresLeft \/ (LeftHandlerStep /\ left_edge_cnt = AllOnes32))
        /\ (right_edge_cnt' = Zero32 /\ right_edge_cnt # Zero32) =>
              (ResetStoresRight \/ (RightHandlerStep /\ right_edge_cnt = AllOnes32))
      ]_vars

\* C6 witness: motors_stop_all has returned with the left timer stopped, a
\* non-zero count retained, and one edge event still pending that is
\* handled as soon as interrupts are enabled.
C6_Witness ==
    /\ Returned({"stop_all"})
    /\ TCCR4B_CS = 0 /\ cfg_l
    /\ OCF4D /\ ~SREG_I
    /\ base_l = Zero32 /\ left_edge_cnt = ToU32(1)

\* Every compare match of the channel since the zeroing has been handled.
AllHandledLeft == lost_l = 0 /\ ~OCF4D

AllHandledRight == lost_r = 0 /\ ~OCF1A

\* The reset is not in the middle of storing zeroes.
NoResetUnderWay == pc \notin {"zero_right", "zero_left"}

\* C7: counted from 0 without a reset in between, a channel's edge_count
\* equals the number of handled edge events, so after N full output cycles
\* (2N toggles, all handled) it is 2N and the step count query returns N;
\* a step count query always returns a snapshot of edge_count shifted
\* right by one.
C7_StepsAreHalfTheEdges ==
    /\ (base_l = Zero32 /\ NoResetUnderWay) => left_edge_cnt = ToU32(handled_l)
    /\ (base_r = Zero32 /\ NoResetUnderWay) => right_edge_cnt = ToU32(handled_r)
    /\ (base_l = Zero32 /\ NoResetUnderWay /\ AllHandledLeft) =>
          left_edge_cnt = ToU32(TogglesLeft)
    /\ (base_r = Zero32 /\ NoResetUnderWay /\ AllHandledRight) =>
          right_edge_cnt = ToU32(TogglesRight)
    /\ Returned(StepReads) => \E v \in held : ret = ShiftRight1(v)
    /\ (Returned({"get_step_count_left"}) /\ base_l = Zero32 /\ AllHandledLeft
            /\ held = {left_edge_cnt}) => ret = ToU32(TogglesLeft \div 2)
    /\ (Returned({"get_step_count_right"}) /\ base_r = Zero32 /\ AllHandledRight
            /\ held = {right_edge_cnt}) => ret = ToU32(TogglesRight \div 2)

\* C7 witness: one full output cycle of the left timer (two toggles, both
\* handled) counted from 0: edge_count is 2 and the step count query
\* returned 1.
C7_Witness ==
    /\ Returned({"get_step_count_left"})
    /\ base_l = Zero32 /\ AllHandledLeft /\ TogglesLeft = 2
    /\ left_edge_cnt = ToU32(2) /\ held = {left_edge_cnt}
    /\ ret = ToU32(1)

\* C10 as stated: motors_stop_all leaves each channel's driver-enable
\* output as it was before the call.
C10_StopKeepsEnable == Returned({"stop_all"}) => <<LEFT_ENA, RIGHT_ENA>> = ena_at_stop

\* C10 as amended: motors_stop_all drives both driver-enable outputs to
\* disabled whatever they were before, and leaves both edge counts (and
\* both direction outputs) unchanged.
C10_StopDisablesKeepsCount ==
    /\ [](Returned({"stop_all"}) => (~LEFT_ENA /\ ~RIGHT_ENA))
    /\ [][motors_stop_all => UNCHANGED <<counters, LEFT_DIR, RIGHT_DIR>>]_vars

\* C10 witness: motors_stop_all was called with both drivers enabled and a
\* non-zero left count; both drivers are now disabled and the count is
\* still there.
C10_Witness ==
    /\ Returned({"stop_all"})
    /\ ena_at_stop = <<TRUE, TRUE>>
    /\ ~LEFT_ENA /\ ~RIGHT_ENA
    /\ base_l = Zero32 /\ left_edge_cnt = ToU32(2)

\* A step in which the main context makes the one-step call named name
\* (a handler or a compare match changes a flag or a merge count instead).
CallStep(name) ==
    /\ pc = "idle" /\ op' = name
    /\ UNCHANGED <<OCF4D, OCF1A, lost_l, lost_r>>

\* C11: after motors_stop_all returns both timers have no clock source
\* selected and both drivers are disabled, and the call leaves the
\* programmed compare values of both channels (top and the half-top
\* compare point) as they were.
C11_StopHaltsKeepsCompare ==
    /\ [](Returned({"stop_all"}) =>
              (TCCR4B_CS = 0 /\ TCCR1B_CS = 0 /\ ~LEFT_ENA /\ ~RIGHT_ENA))
    /\ [][CallStep("stop_all") =>
              UNCHANGED <<left_top, OCR4C, OCR4D, right_top, OCR1A>>]_vars

\* C11 witness: motors_stop_all returned after both channels were running
\* at 700 rpm with the drivers enabled: no clock source, drivers disabled,
\* and the compare values of 700 rpm (52 / 26 left, 2 right) still there.
C11_Witness ==
    /\ Returned({"stop_all"})
    /\ ena_at_stop = <<TRUE, TRUE>> /\ ~LEFT_ENA /\ ~RIGHT_ENA
    /\ TCCR4B_CS = 0 /\ TCCR1B_CS = 0
    /\ rpm_l = 700 /\ rpm_r = 700
    /\ OCR4C = 52 /\ OCR4D = 26 /\ OCR1A = 2

\* C12: the top and the clock selection a set_speed call programs for a
\* speed are those the same speed programmed on that channel the first
\* time, whatever was called (other speeds, motors_stop_all, motors_init,
\* enable, direction) and whatever edge events occurred in between.
C12_SameSpeedSameConfig ==
    /\ (Returned({"set_speed_left", "set_speed_both"}) /\ rpm_l \in TrackedRpms) =>
          /\ <<left_top, TCCR4B_CS>> = <<first_l[rpm_l][1], first_l[rpm_l][2]>>
          /\ OCR4C = left_top
    /\ (Returned({"set_speed_right", "set_speed_both"}) /\ rpm_r \in TrackedRpms) =>
          /\ <<right_top, TCCR1B_CS>> = <<first_r[rpm_r][1], first_r[rpm_r][2]>>
          /\ OCR1A = right_top

\* C12 witness: motors_set_speed_left(700) returned for the second time at
\* least, after 300 rpm was programmed too, the right timer was stopped
\* and two edge events were counted.
C12_Witness ==
    /\ Returned({"set_speed_left"})
    /\ rpm_l = 700 /\ first_l[700] = <<52, Timer4Code(CLOCK_DIVISOR_TIMER4_HIGH), TRUE>>
    /\ first_l[300] # <<>>
    /\ cfg_r /\ TCCR1B_CS = 0
    /\ left_edge_cnt = ToU32(2)

\* C14: for every rpm >= 1, set_speed on a channel ends with that
\* channel's clock source selected, and the call leaves every driver-enable
\* and direction output as it was.
C14_SetSpeedStartsKeepsOutputs ==
    /\ []((Returned({"set_speed_left", "set_speed_both"}) /\ rpm_l >= 1) => TCCR4B_CS # 0)
    /\ []((Returned({"set_speed_right", "set_speed_both"}) /\ rpm_r >= 1) => TCCR1B_CS # 0)
    /\ [][(CallStep("set_speed_left") \/ CallStep("set_speed_right")
              \/ CallStep("set_speed_both")) =>
              UNCHANGED <<LEFT_ENA, RIGHT_ENA, LEFT_DIR, RIGHT_DIR>>]_vars

\* C14 witness: motors_set_speed_left(300) returned with the drivers
\* enabled and the left direction reversed: the timer runs on the low-speed
\* selection, the right timer is still stopped.
C14_Witness ==
    /\ Returned({"set_speed_left"})
    /\ rpm_l = 300 /\ TCCR4B_CS = Timer4Code(CLOCK_DIVISOR_TIMER4_LOW)
    /\ LEFT_ENA /\ RIGHT_ENA /\ ~LEFT_DIR /\ RIGHT_DIR
    /\ TCCR1B_CS = 0

\* C15 as stated: after motors_init returns, from any state, each channel
\* is Disabled, Stopped, Forward and has edge_count = 0 (runs whose counters
\* started from 0).
C15_InitZeroesCounts ==
    (Returned({"init"}) /\ base_l = Zero32 /\ base_r = Zero32) =>
        /\ ~LEFT_ENA /\ ~RIGHT_ENA
        /\ TCCR4B_CS = 0 /\ TCCR1B_CS = 0
        /\ LEFT_DIR /\ RIGHT_DIR
        /\ left_edge_cnt = Zero32 /\ right_edge_cnt = Zero32

\* C15 as amended: after motors_init returns each channel is Disabled,
\* Stopped and Forward; motors_init writes neither edge_count, so a count
\* is 0 after it only if it was 0 before (as after power-up).
C15_InitKeepsCounts ==
    /\ [](Returned({"init"}) =>
              /\ ~LEFT_ENA /\ ~RIGHT_ENA
              /\ TCCR4B_CS = 0 /\ TCCR1B_CS = 0
              /\ LEFT_DIR /\ RIGHT_DIR)
    /\ [][CallStep("init") => UNCHANGED counters]_vars

\* C15 witness: motors_init returned after the left channel had run and
\* counted two edges from 0: disabled, stopped, forward, and the count is
\* still 2.
C15_Witness ==
    /\ Returned({"init"})
    /\ cfg_l /\ TCCR4B_CS = 0 /\ ~LEFT_ENA /\ LEFT_DIR
    /\ base_l = Zero32 /\ left_edge_cnt = ToU32(2)

\* Everything of the driver's state except the four enable and direction
\* outputs.
AllButOutputs ==
    <<leftTimer, rightTimer, counters, irq, SREG_I, LEFT_PUL, RIGHT_PUL>>

\* C16: motors_enable_left/right/all and motors_set_dir_left/right change
\* only the addressed enable or direction output, which ends equal to the
\* requested flag; the timers' clock selection, the programmed tops and
\* the edge counts are unchanged by the call, also while the channel runs.
C16_OutputCallsTouchOnlyTheirOutput ==
    [][ /\ CallStep("enable_left") =>
              UNCHANGED <<AllButOutputs, RIGHT_ENA, LEFT_DIR, RIGHT_DIR>>
        /\ CallStep("enable_right") =>
              UNCHANGED <<AllButOutputs, LEFT_ENA, LEFT_DIR, RIGHT_DIR>>
        /\ CallStep("enable_all") =>
              UNCHANGED <<AllButOutputs, LEFT_DIR, RIGHT_DIR>>
        /\ CallStep("set_dir_left") =>
              UNCHANGED <<AllButOutputs, LEFT_ENA, RIGHT_ENA, RIGHT_DIR>>
        /\ CallStep("set_dir_right") =>
              UNCHANGED <<AllButOutputs, LEFT_ENA, RIGHT_ENA, LEFT_DIR>>
        /\ \A flag \in BOOLEAN :
              /\ motors_enable_left(flag) => LEFT_ENA' = flag
              /\ motors_enable_right(flag) => RIGHT_ENA' = flag
              /\ motors_enable_all(flag) => (LEFT_ENA' = flag /\ RIGHT_ENA' = flag)
              /\ motors_set_dir_left(flag) => LEFT_DIR' = flag
              /\ motors_set_dir_right(flag) => RIGHT_DIR' = flag
      ]_vars

\* C16 witness: motors_set_dir_left(false) returned while the left channel
\* is running, enabled, with one edge counted: reversed, still running.
C16_Witness ==
    /\ Returned({"set_dir_left"})
    /\ ~LEFT_DIR /\ RIGHT_DIR /\ LEFT_ENA
    /\ TCCR4B_CS # 0 /\ OCR4C = left_top
    /\ base_l = Zero32 /\ left_edge_cnt = ToU32(1)

\* C17: between the first store of the reset's zeroing and its last no
\* handler increments a counter, and when the critical section ends both
\* counters are exactly 0: no byte of a pre-reset value survives.
C17_ResetIsAtomic ==
    /\ []((pc = "restore" /\ op = "reset_edge_counts") =>
              (left_edge_cnt = Zero32 /\ right_edge_cnt = Zero32))
    /\ [][(pc \in {"zero_right", "zero_left"}) =>
              ~(LeftHandlerStep \/ RightHandlerStep)]_vars

\* C17 witness: the reset, entered with interrupts enabled and both timers
\* running, is about to restore SREG: an edge event of each channel
\* arrived during the section and is pending, and both counters are 0.
C17_Witness ==
    /\ pc = "restore" /\ op = "reset_edge_counts"
    /\ oldSREG /\ ~SREG_I
    /\ OCF4D /\ OCF1A
    /\ left_edge_cnt = Zero32 /\ right_edge_cnt = Zero32

\* The main context is inside a critical section (after cli, before the
\* SREG restore).
InCriticalSection == pc \in {"read", "zero_right", "zero_left", "restore"}

\* C19: an edge event that arrives while interrupts are disabled stays
\* pending; after a read or reset that was entered with interrupts
\* enabled, a pending event is served before the main context goes on; a
\* pending event is cleared only by its handler, which adds exactly 1, and
\* a counter is incremented only for a pending event; events merge only
\* when a second one arrives while the first is still pending, so without
\* merged events the handler runs equal the toggles.
C19_NoEdgeLostOrDoubled ==
    /\ [][ /\ (OCF4D /\ ~OCF4D') =>
                  (SREG_I /\ left_edge_cnt' = AddFrom(left_edge_cnt, 0, 1))
           /\ (OCF1A /\ ~OCF1A') =>
                  (SREG_I /\ right_edge_cnt' = AddFrom(right_edge_cnt, 0, 1))
           /\ (left_edge_cnt' # left_edge_cnt /\ ~ResetStoresLeft) => (OCF4D /\ ~OCF4D')
           /\ (right_edge_cnt' # right_edge_cnt /\ ~ResetStoresRight) => (OCF1A /\ ~OCF1A')
           /\ InCriticalSection => ((OCF4D => OCF4D') /\ (OCF1A => OCF1A'))
           /\ IrqReady => UNCHANGED <<pc, op, byte>>
           /\ lost_l' > lost_l => OCF4D
           /\ lost_r' > lost_r => OCF1A
         ]_vars
    /\ [](InCriticalSection => ~SREG_I)
    /\ []((Returned(CriticalOps) /\ entryI /\ (OCF4D \/ OCF1A)) => IrqReady)
    /\ []((base_l = Zero32 /\ NoResetUnderWay /\ lost_l = 0 /\ ~OCF4D) =>
              left_edge_cnt = ToU32(TogglesLeft))
    /\ []((base_r = Zero32 /\ NoResetUnderWay /\ lost_r = 0 /\ ~OCF1A) =>
              right_edge_cnt = ToU32(TogglesRight))

\* C19 witness: a left read entered with interrupts enabled is about to
\* restore SREG; a left edge event arrived during the section, is pending
\* and not yet counted (the snapshot equals the counter).
C19_Witness ==
    /\ pc = "restore" /\ op = "get_edge_count_left"
    /\ oldSREG /\ ~SREG_I /\ OCF4D
    /\ lost_l = 0 /\ c = left_edge_cnt /\ held = {left_edge_cnt}

\* A step the main context executes in motors_move_left / motors_move_right
\* (name): the call's entry or one of its pulse writes.
MoveStep(name) ==
    /\ op' = name
    /\ UNCHANGED <<OCF4D, OCF1A, lost_l, lost_r>>

\* The burst named name has returned after a call with a negative count
\* whose magnitude is a positive int32_t.
ReturnedReverse(name) == Returned({name}) /\ arg < 0 /\ arg # INT32_MIN

\* C13: for every k > 0 (k an int32_t), motors_move_left(-k) /
\* motors_move_right(-k) returns with that channel's direction output at
\* reverse, its driver enabled and exactly k high-then-low cycles driven
\* on its pulse output, and no step of the move writes an edge counter.
C13_ReverseBurst ==
    /\ [](ReturnedReverse("move_left") =>
              (~LEFT_DIR /\ LEFT_ENA /\ cycles = -arg /\ ~LEFT_PUL))
    /\ [](ReturnedReverse("move_right") =>
              (~RIGHT_DIR /\ RIGHT_ENA /\ cycles = -arg /\ ~RIGHT_PUL))
    /\ []((op \in MoveOps /\ arg < 0 /\ arg # INT32_MIN) => cycles <= -arg)
    /\ [][(MoveStep("move_left") \/ MoveStep("move_right")) => UNCHANGED counters]_vars
    /\ [][(cycles' # cycles /\ pc = "pul_low") =>
              /\ cycles' = cycles + 1
              /\ IF op = "move_left" THEN LEFT_PUL /\ ~LEFT_PUL'
                                     ELSE RIGHT_PUL /\ ~RIGHT_PUL']_vars

\* C13 witness: motors_move_left(-MaxSteps) returned while the left timer
\* runs and its handler has counted one edge: reverse, enabled, MaxSteps
\* cycles driven, the count still 1.
C13_Witness ==
    /\ Returned({"move_left"})
    /\ arg = -MaxSteps /\ cycles = MaxSteps
    /\ ~LEFT_DIR /\ LEFT_ENA /\ ~LEFT_PUL
    /\ TCCR4B_CS # 0 /\ SREG_I
    /\ left_edge_cnt = ToU32(1)

\* C18: for every int32_t n, 0, INT32_MAX and INT32_MIN included,
\* motors_move_left(n) / motors_move_right(n) has driven exactly |n|
\* pulse cycles when it returns (cycles - 1 = |n| - 1, as |INT32_MIN| is
\* no int32_t), forward for n >= 0 and reverse for n < 0, in every build.
C18_BurstDrivesAbsCycles ==
    Returned(MoveOps) =>
        /\ IF arg >= 0 THEN cycles = arg ELSE cycles - 1 = -(arg + 1)
        /\ (IF op = "move_left" THEN LEFT_DIR ELSE RIGHT_DIR) = (arg >= 0)

\* The state of a channel the other channel's operations must not touch.
LeftChannel == <<LEFT_ENA, LEFT_DIR, left_top, OCR4C, OCR4D, TCCR4B_CS, left_edge_cnt>>

RightChannel == <<RIGHT_ENA, RIGHT_DIR, right_top, OCR1A, TCCR1B_CS, right_edge_cnt>>

\* C20: every single-channel operation (set_speed, enable, set_dir, move
\* and the edge-event handler of a channel) leaves the other channel's
\* enable and direction outputs, top, clock selection and edge_count
\* unchanged, and motors_set_speed_both(l, r) does to the left channel
\* what motors_set_speed_left(l) does and to the right channel what
\* motors_set_speed_right(r) does, and nothing else.
C20_ChannelsIndependent ==
    [][ /\ (CallStep("set_speed_left") \/ CallStep("enable_left")
              \/ CallStep("set_dir_left") \/ MoveStep("move_left")
              \/ (OCF4D /\ ~OCF4D')) => UNCHANGED <<RightChannel, RIGHT_PUL>>
        /\ (CallStep("set_speed_right") \/ CallStep("enable_right")
              \/ CallStep("set_dir_right") \/ MoveStep("move_right")
              \/ (OCF1A /\ ~OCF1A')) => UNCHANGED <<LeftChannel, LEFT_PUL>>
        /\ \A l, r \in MoveRpms :
              motors_set_speed_both(l, r) =>
                  /\ \E q \in Quotients(LeftDen(l)) : LeftSpeedEffect(l, q)
                  /\ \E q \in Quotients(RightDen(r)) : RightSpeedEffect(r, q)
                  /\ UNCHANGED <<ports, counters, irq, SREG_I>>
        /\ \A l \in MoveRpms :
              motors_set_speed_left(l) =>
                  /\ \E q \in Quotients(LeftDen(l)) : LeftSpeedEffect(l, q)
                  /\ UNCHANGED <<ports, counters, irq, SREG_I>>
        /\ \A r \in MoveRpms :
              motors_set_speed_right(r) =>
                  /\ \E q \in Quotients(RightDen(r)) : RightSpeedEffect(r, q)
                  /\ UNCHANGED <<ports, counters, irq, SREG_I>>
      ]_vars

\* C20 witness: motors_move_left(MaxSteps) returned while the right channel is
\* running at 501 rpm, disabled, forward, with two edges counted, and the
\* left channel was last set to 500 rpm.
C20_Witness ==
    /\ Returned({"move_left"}) /\ arg = MaxSteps /\ cycles = MaxSteps
    /\ LEFT_ENA /\ LEFT_DIR /\ ~LEFT_PUL
    /\ ~RIGHT_ENA /\ RIGHT_DIR /\ RIGHT_PUL
    /\ rpm_r = RPM_THRESHOLD + 1 /\ TCCR1B_CS # 0 /\ OCR1A = right_top
    /\ rpm_l = RPM_THRESHOLD /\ TCCR4B_CS = Timer4Code(CLOCK_DIVISOR_TIMER4_LOW)
    /\ right_edge_cnt = ToU32(2)


====
